---------------------------- MODULE Spec2Model ----------------------------
(***************************************************************************)
(* js-serialization: an encoder ("stringify") and a decoder ("parse") that *)
(* carry undefined, NaN, +/-Infinity, bigint and Date through JSON text as *)
(* tagged strings "data:<type>,<payload>", with plugin hooks.              *)
(*                                                                         *)
(* Strings and texts are sequences of UTF-16 code units (naturals).  JS    *)
(* values are records tagged by the field t.                               *)
(***************************************************************************)
EXTENDS Integers, Sequences, FiniteSets, TLC

VARIABLES
  registry,   \* this.plugins of every engine instance created so far
  path,       \* module-level `path`
  gap,        \* module-level `gap`
  indent,     \* module-level `indent`
  rep,        \* module-level `rep`
  plugins,    \* module-level `plugins`
  call,       \* the last API call: its arguments, its outcome, the hooks it invoked
  sweep       \* the work-queue sweep of a parse call, one loop iteration at a time

vars == <<registry, path, gap, indent, rep, plugins, call, sweep>>

(***************************************************************************)
(* Bounds of the model.                                                    *)
(***************************************************************************)
MaxInstances == 2   \* engine instances (the default one included)
MaxPlugins == 2     \* plugins registered on one instance
MaxListLen == 2     \* entries of an inclusion-list replacer
MaxLen == 2         \* elements of an array, fields of a keyed structure
MaxObjects == 2     \* objects in the value the host-parser pass hands to the sweep
MaxScans == 3       \* the count of scans of one object stops here
MaxQueue == 4       \* the sweep is followed while its queue is no longer than this

(***************************************************************************)
(* Characters.                                                             *)
(***************************************************************************)
Ascii ==
  <<" ", "!", "\"", "#", "$", "%", "&", "'", "(", ")", "*", "+", ",", "-", ".", "/",
    "0", "1", "2", "3", "4", "5", "6", "7", "8", "9", ":", ";", "<", "=", ">", "?",
    "@", "A", "B", "C", "D", "E", "F", "G", "H", "I", "J", "K", "L", "M", "N", "O",
    "P", "Q", "R", "S", "T", "U", "V", "W", "X", "Y", "Z", "[", "\\", "]", "^", "_",
    "grave", "a", "b", "c", "d", "e", "f", "g", "h", "i", "j", "k", "l", "m", "n", "o",
    "p", "q", "r", "s", "t", "u", "v", "w", "x", "y", "z", "{", "|", "}", "~">>

\* The code unit of a printable ASCII character.
Ord(c) == 31 + (CHOOSE i \in 1..Len(Ascii) : Ascii[i] = c)

\* A string literal, written as a tuple of characters.
U(s) == [i \in 1..Len(s) |-> Ord(s[i])]

RECURSIVE Concat(_)
Concat(ss) == IF ss = <<>> THEN <<>> ELSE Head(ss) \o Concat(Tail(ss))

\* Array.prototype.join
RECURSIVE Join(_, _)
Join(parts, sep) ==
  IF parts = <<>> THEN <<>>
  ELSE IF Len(parts) = 1 THEN parts[1]
  ELSE parts[1] \o sep \o Join(Tail(parts), sep)

\* String.prototype.split with a one-character separator: every occurrence splits.
RECURSIVE Split(_, _)
Split(s, sep) ==
  IF \A i \in 1..Len(s) : s[i] # sep THEN <<s>>
  ELSE LET i == CHOOSE j \in 1..Len(s) : s[j] = sep /\ \A h \in 1..(j - 1) : s[h] # sep
       IN <<SubSeq(s, 1, i - 1)>> \o Split(SubSeq(s, i + 1, Len(s)), sep)

StartsWith(s, p) == Len(s) >= Len(p) /\ SubSeq(s, 1, Len(p)) = p

\* String(n) of an integer.
RECURSIVE Digits(_)
Digits(n) == IF n < 10 THEN <<48 + n>> ELSE Digits(n \div 10) \o <<48 + (n % 10)>>

NumStr(n) == IF n < 0 THEN <<Ord("-")>> \o Digits(0 - n) ELSE Digits(n)

IsDigit(c) == c >= 48 /\ c <= 57

RECURSIVE DigitsVal(_)
DigitsVal(s) == IF s = <<>> THEN 0 ELSE 10 * DigitsVal(SubSeq(s, 1, Len(s) - 1)) + (s[Len(s)] - 48)

\* Number.prototype.toString(16) of a code unit, lower case.
HexDigit(d) == IF d < 10 THEN 48 + d ELSE 87 + d

RECURSIVE Hex(_)
Hex(n) == IF n < 16 THEN <<HexDigit(n)>> ELSE Hex(n \div 16) \o <<HexDigit(n % 16)>>

(***************************************************************************)
(* JS values.                                                              *)
(***************************************************************************)
Undef == [t |-> "undefined"]
Null == [t |-> "null"]
Bool(b) == [t |-> "boolean", b |-> b]
Num(n) == [t |-> "number", n |-> n]
NaN == [t |-> "NaN"]
PosInf == [t |-> "Infinity"]
NegInf == [t |-> "-Infinity"]
Big(n) == [t |-> "bigint", n |-> n]
Date(ms) == [t |-> "date", ms |-> ms]
InvalidDate == [t |-> "invalid date"]
Str(s) == [t |-> "string", s |-> s]
Arr(e) == [t |-> "array", e |-> e]
Fld(k, v) == [k |-> k, v |-> v]
Obj(f) == [t |-> "object", f |-> f]
\* An object whose toJSON method returns r.
WithToJSON(r) == [t |-> "tojson", r |-> r]
\* A function value; h names what it does when it is used as a hook.
Fn(h) == [t |-> "function", h |-> h]
\* const undefinedSymbol = Symbol("undefined")
undefinedSymbol == [t |-> "symbol"]

\* typeof v
TypeOf(v) ==
  CASE v.t = "undefined" -> "undefined"
    [] v.t = "string" -> "string"
    [] v.t \in {"number", "NaN", "Infinity", "-Infinity"} -> "number"
    [] v.t = "bigint" -> "bigint"
    [] v.t = "boolean" -> "boolean"
    [] v.t = "function" -> "function"
    [] v.t = "symbol" -> "symbol"
    [] OTHER -> "object"

\* ToBoolean(v)
Truthy(v) ==
  CASE v.t \in {"undefined", "null", "NaN"} -> FALSE
    [] v.t = "boolean" -> v.b
    [] v.t = "number" -> v.n # 0
    [] v.t = "bigint" -> v.n # 0
    [] v.t = "string" -> v.s # <<>>
    [] OTHER -> TRUE

HasKey(o, k) == \E i \in 1..Len(o.f) : o.f[i].k = k

\* holder[key]
Get(holder, key) ==
  CASE holder.t = "object" ->
         IF HasKey(holder, key)
         THEN holder.f[CHOOSE i \in 1..Len(holder.f) : holder.f[i].k = key].v
         ELSE Undef
    [] holder.t = "array" ->
         IF \E i \in 1..Len(holder.e) : NumStr(i - 1) = key
         THEN holder.e[CHOOSE i \in 1..Len(holder.e) : NumStr(i - 1) = key]
         ELSE Undef
    [] OTHER -> Undef

(***************************************************************************)
(* quote: rx_escapable, meta.                                              *)
(***************************************************************************)
rx_escapable(c) ==
  \/ c = 92 \/ c = 34
  \/ c >= 0 /\ c <= 31
  \/ c >= 127 /\ c <= 159
  \/ c = 173
  \/ c >= 1536 /\ c <= 1540
  \/ c = 1807
  \/ c = 6068 \/ c = 6069
  \/ c >= 8204 /\ c <= 8207
  \/ c >= 8232 /\ c <= 8239
  \/ c >= 8288 /\ c <= 8303
  \/ c = 65279
  \/ c >= 65520 /\ c <= 65535

InMeta(c) == c \in {8, 9, 10, 12, 13, 34, 92}

meta(c) ==
  CASE c = 8 -> U(<<"\\", "b">>)
    [] c = 9 -> U(<<"\\", "t">>)
    [] c = 10 -> U(<<"\\", "n">>)
    [] c = 12 -> U(<<"\\", "f">>)
    [] c = 13 -> U(<<"\\", "r">>)
    [] c = 34 -> U(<<"\\", "\"">>)
    [] c = 92 -> U(<<"\\", "\\">>)

\* An escape without the padding to four digits.
UEscapeUnpadded(c) == U(<<"\\", "u">>) \o Hex(c)

\* "\\u" + ("0000" + a.charCodeAt(0).toString(16)).slice(-4)
UEscape(c) ==
  LET h == U(<<"0", "0", "0", "0">>) \o Hex(c)
  IN U(<<"\\", "u">>) \o SubSeq(h, Len(h) - 3, Len(h))

EscapeChar(c) ==
  IF rx_escapable(c) THEN (IF InMeta(c) THEN meta(c) ELSE UEscape(c)) ELSE <<c>>

RECURSIVE EscapeAll(_)
EscapeAll(s) == IF s = <<>> THEN <<>> ELSE EscapeChar(Head(s)) \o EscapeAll(Tail(s))

quote(string) ==
  IF \E i \in 1..Len(string) : rx_escapable(string[i])
  THEN U(<<"\"">>) \o EscapeAll(string) \o U(<<"\"">>)
  ELSE U(<<"\"">>) \o string \o U(<<"\"">>)

(***************************************************************************)
(* Tag codec.                                                              *)
(***************************************************************************)
Comma == Ord(",")
Colon == Ord(":")
DataPrefix == U(<<"d", "a", "t", "a", ":">>)

toDataURL(type, value) == DataPrefix \o type \o <<Comma>> \o value

\* An element of a split result, or undefined when the index is past its end.
Piece(pieces, i) == IF i <= Len(pieces) THEN Str(pieces[i]) ELSE Undef

\* const [type, value] = text.split(","); {type: type.split(":")[1], value}
parseDataURL(text) ==
  LET parts == Split(text, Comma)
  IN [type |-> Piece(Split(parts[1], Colon), 2), value |-> Piece(parts, 2)]

\* /^data:[^,]+,[^,]*$/.test(s)
IsTokenShape(s) ==
  /\ StartsWith(s, DataPrefix)
  /\ \E i \in (Len(DataPrefix) + 2)..Len(s) :
       /\ s[i] = Comma
       /\ \A j \in 1..Len(s) : s[j] = Comma => j = i

(***************************************************************************)
(* The encoder.  The module-level variables are threaded through as the    *)
(* record st: path, gap, indent, rep, plugins are the code's; registry is  *)
(* every instance's this.plugins (read by a hook that calls another        *)
(* instance); log, cur and lvl are history: the hook invocations so far,   *)
(* the instance whose stringify call is running, and its nesting level.    *)
(* The parameter `up` of str is history too: the keys from the fake root   *)
(* to the holder.                                                          *)
(***************************************************************************)
NoOut == [def |-> FALSE]
Out(s) == [def |-> TRUE, s |-> s]

\* `v || "null"` and `if (v)` on the result of str
OutTruthy(o) == o.def /\ o.s # <<>>

\* path.pop()
\* A loop that forgets path.pop().
PopNothing(p) == p

Pop(p) == IF p = <<>> THEN p ELSE SubSeq(p, 1, Len(p) - 1)

\* The instance a "nest" hook calls stringify on.
NestTarget == MaxInstances

Logged(st, who, idx, pid, node, key, value, raw, ret) ==
  [st EXCEPT !.log = Append(@,
     [call |-> st.cur, lvl |-> st.lvl, who |-> who, idx |-> idx, pid |-> pid,
      node |-> node, key |-> key, value |-> value, raw |-> raw,
      path |-> st.path, gap |-> st.gap, ret |-> ret])]

\* The plugins that can be registered: their encode and decode hooks.
Plugin(id) ==
  CASE id = "A" -> [replacer |-> "inc", reviver |-> "inc"]
    [] id = "B" -> [replacer |-> "dbl", reviver |-> "absent"]
    [] id = "N" -> [replacer |-> "nest", reviver |-> "none"]
    [] id = "E" -> [replacer |-> "none", reviver |-> "none"]

\* What a hook without side effects returns for (key, value, raw).
HookValue(h, value, raw) ==
  CASE h = "inc" -> IF value.t = "number" THEN Num(value.n + 1) ELSE value
    [] h = "dbl" -> IF value.t = "number" THEN Num(value.n * 2) ELSE value
    [] h = "absent" -> IF value.t = "null" THEN Undef ELSE value
    [] h = "raw" -> raw
    [] OTHER -> value

\* typeof space === "number": that many spaces; a string: itself; else "".
IndentOf(space) ==
  CASE space.t = "number" -> [i \in 1..space.n |-> 32]
    [] space.t = "string" -> space.s
    [] OTHER -> <<>>

\* replacer && typeof replacer !== "function" &&
\* (typeof replacer !== "object" || typeof replacer.length !== "number")
HasNumericLength(v) ==
  \/ v.t = "array"
  \/ v.t = "object" /\ HasKey(v, U(<<"l", "e", "n", "g", "t", "h">>))
       /\ TypeOf(Get(v, U(<<"l", "e", "n", "g", "t", "h">>))) = "number"

\* A validation that lets every object through, with or without a length.
InvalidReplacerAnyObject(replacer) ==
  /\ Truthy(replacer)
  /\ TypeOf(replacer) \notin {"function", "object"}

InvalidReplacer(replacer) ==
  /\ Truthy(replacer)
  /\ TypeOf(replacer) # "function"
  /\ (TypeOf(replacer) # "object" \/ ~HasNumericLength(replacer))

\* rep[i] of an inclusion list
ListEntries(r) == IF r.t = "array" THEN r.e ELSE <<>>

RECURSIVE str(_, _, _, _)
RECURSIVE stringify(_, _, _, _, _)
RECURSIVE CallReplacer(_, _, _, _, _, _, _, _, _)
RECURSIVE PluginLoop(_, _, _, _, _, _)
RECURSIVE StrArray(_, _, _, _, _)
RECURSIVE StrList(_, _, _, _, _)
RECURSIVE StrKeys(_, _, _, _, _)

\* replacer.call(holder, key, value, raw, path)
CallReplacer(h, who, idx, pid, holder, key, value, raw, st) ==
  IF h = "nest"
  THEN [v |-> value,
        st |-> [stringify(NestTarget, Num(0), Undef, Undef,
                          Logged(st, who, idx, pid, st.node, key, value, raw, value)).st
                  EXCEPT !.cur = st.cur, !.lvl = st.lvl, !.node = st.node]]
  ELSE IF h = "throw" /\ value.t = "null"
  THEN [v |-> value,
        st |-> [Logged(st, who, idx, pid, st.node, key, value, raw, value)
                  EXCEPT !.err = "Error: hook"]]
  ELSE [v |-> HookValue(h, value, raw),
        st |-> Logged(st, who, idx, pid, st.node, key, value, raw, HookValue(h, value, raw))]

\* for (let index = 0; index < plugins.length; index++) { ... }
PluginLoop(index, holder, key, value, raw, st) ==
  IF index > Len(st.plugins) THEN [v |-> value, st |-> st]
  ELSE LET pid == st.plugins[index]
           h == Plugin(pid).replacer
           Then(r) == IF r.st.err # "" THEN r
                      ELSE PluginLoop(index + 1, holder, key, r.v, raw, r.st)
       IN Then(IF h # "none"
               THEN CallReplacer(h, "plugin", index, pid, holder, key, value, raw, st)
               ELSE [v |-> value, st |-> st])

\* for (i = 0; i < length; i += 1) { partial[i] = str(String(i), value) || "null"; path.pop(); }
StrArray(i, value, st, partial, node) ==
  IF i >= Len(value.e) THEN [partial |-> partial, st |-> st]
  ELSE LET Then(r) ==
             IF r.st.err # "" THEN [partial |-> partial, st |-> r.st]
             ELSE StrArray(i + 1, value, [r.st EXCEPT !.path = Pop(@)],
                           Append(partial, IF OutTruthy(r.out) THEN r.out.s
                                           ELSE U(<<"n", "u", "l", "l">>)),
                           node)
       IN Then(str(NumStr(i), value, st, node))

Member(k, v, st) ==
  quote(k) \o (IF st.gap # <<>> THEN U(<<":", " ">>) ELSE U(<<":">>)) \o v

\* for (i = 0; i < length; i += 1) { if (typeof rep[i] === "string") { ... } }
StrList(i, value, st, partial, node) ==
  IF i > Len(ListEntries(st.rep)) THEN [partial |-> partial, st |-> st]
  ELSE LET e == ListEntries(st.rep)[i]
       IN IF e.t # "string" THEN StrList(i + 1, value, st, partial, node)
          ELSE LET Then(r) ==
                     IF r.st.err # "" THEN [partial |-> partial, st |-> r.st]
                     ELSE StrList(i + 1, value, [r.st EXCEPT !.path = Pop(@)],
                                  IF OutTruthy(r.out)
                                  THEN Append(partial, Member(e.s, r.out.s, r.st))
                                  ELSE partial,
                                  node)
               IN Then(str(e.s, value, st, node))

\* for (k in value) { if (hasOwnProperty(value, k)) { ... } }
StrKeys(i, value, st, partial, node) ==
  IF i > Len(value.f) THEN [partial |-> partial, st |-> st]
  ELSE LET k == value.f[i].k
           Then(r) ==
             IF r.st.err # "" THEN [partial |-> partial, st |-> r.st]
             ELSE StrKeys(i + 1, value, [r.st EXCEPT !.path = Pop(@)],
                          IF OutTruthy(r.out) THEN Append(partial, Member(k, r.out.s, r.st))
                          ELSE partial,
                          node)
       IN Then(str(k, value, st, node))

\* The brackets around the joined partial results, gap left as the children had it.
WrapKeepGap(open, close, partial, st, mind) ==
  [out |-> Out(IF partial = <<>> THEN open \o close
               ELSE IF st.gap # <<>>
               THEN open \o <<10>> \o st.gap \o Join(partial, U(<<",">>) \o <<10>> \o st.gap)
                    \o <<10>> \o mind \o close
               ELSE open \o Join(partial, U(<<",">>)) \o close),
   st |-> st]

\* The brackets around the joined partial results; then gap = mind.
Wrap(open, close, partial, st, mind) ==
  LET nl == <<10>>
      v == IF partial = <<>> THEN open \o close
           ELSE IF st.gap # <<>>
           THEN open \o nl \o st.gap \o Join(partial, U(<<",">>) \o nl \o st.gap)
                \o nl \o mind \o close
           ELSE open \o Join(partial, U(<<",">>)) \o close
  IN [out |-> Out(v), st |-> [st EXCEPT !.gap = mind]]

\* switch (typeof value) { ... }
Dispatch(value, st, mind, node) ==
  LET tag(type, payload) == [out |-> Out(quote(toDataURL(type, payload))), st |-> st]
      text(s) == [out |-> Out(s), st |-> st]
  IN CASE value.t = "undefined" -> tag(U(<<"u", "n", "d", "e", "f", "i", "n", "e", "d">>), <<>>)
       [] value.t = "string" -> text(quote(value.s))
       [] value.t = "NaN" -> tag(U(<<"n", "u", "m", "b", "e", "r">>), U(<<"N", "a", "N">>))
       [] value.t = "Infinity" ->
            tag(U(<<"n", "u", "m", "b", "e", "r">>), U(<<"I", "n", "f", "i", "n", "i", "t", "y">>))
       [] value.t = "-Infinity" ->
            tag(U(<<"n", "u", "m", "b", "e", "r">>),
                U(<<"-", "I", "n", "f", "i", "n", "i", "t", "y">>))
       [] value.t = "number" -> text(NumStr(value.n))
       [] value.t = "bigint" -> tag(U(<<"b", "i", "g", "i", "n", "t">>), NumStr(value.n))
       [] value.t = "boolean" ->
            text(IF value.b THEN U(<<"t", "r", "u", "e">>) ELSE U(<<"f", "a", "l", "s", "e">>))
       [] value.t = "null" -> text(U(<<"n", "u", "l", "l">>))
       [] value.t = "date" -> tag(U(<<"d", "a", "t", "e">>), NumStr(value.ms))
       [] value.t = "invalid date" -> tag(U(<<"d", "a", "t", "e">>), U(<<"N", "a", "N">>))
       [] value.t = "array" ->
            LET Then(r) == IF r.st.err # "" THEN [out |-> NoOut, st |-> r.st]
                           ELSE Wrap(U(<<"[">>), U(<<"]">>), r.partial, r.st, mind)
            IN Then(StrArray(0, value, [st EXCEPT !.gap = @ \o st.indent], <<>>, node))
       [] value.t \in {"object", "tojson"} ->
            LET s1 == [st EXCEPT !.gap = @ \o st.indent]
                o == IF value.t = "object" THEN value ELSE Obj(<<>>)
                Then(r) == IF r.st.err # "" THEN [out |-> NoOut, st |-> r.st]
                           ELSE Wrap(U(<<"{">>), U(<<"}">>), r.partial, r.st, mind)
            IN Then(IF Truthy(st.rep) /\ TypeOf(st.rep) = "object"
                    THEN StrList(1, o, s1, <<>>, node)
                    ELSE StrKeys(1, o, s1, <<>>, node))
       [] OTHER -> [out |-> NoOut, st |-> st]

str(key, holder, st0, up) ==
  LET node == Append(up, key)
      s1 == [st0 EXCEPT !.path = Append(@, key), !.node = node]
      mind == s1.gap
      raw == Get(holder, key)
      Thrown(r) == [out |-> NoOut, st |-> r.st]
      Return(d) ==
        IF d.st.err # "" THEN d
        ELSE [out |-> d.out,
              st |-> Logged(d.st, "exit", 0, "exit", node, key, Undef, raw, Undef)]
      Switch(r) ==
        IF r.st.err # "" THEN Thrown(r)
        ELSE Return(Dispatch(r.v, Logged(r.st, "dispatch", 0, "dispatch", node, key, r.v,
                                         raw, r.v),
                             mind, node))
      Rep(p) ==
        IF p.st.err # "" THEN Thrown(p)
        ELSE Switch(IF TypeOf(p.st.rep) = "function"
                    THEN CallReplacer(p.st.rep.h, "rep", 0, "rep", holder, key, p.v, raw, p.st)
                    ELSE p)
      Plugins(j) == Rep(PluginLoop(1, holder, key, j.v, raw, j.st))
  IN Plugins(IF raw.t = "tojson"
             THEN [v |-> raw.r,
                   st |-> Logged(s1, "toJSON", 0, "toJSON", node, key, raw, raw, raw.r)]
             ELSE [v |-> raw, st |-> s1])

stringify(x, value, replacer, space, st) ==
  LET s1 == [st EXCEPT !.path = <<>>, !.gap = <<>>, !.indent = IndentOf(space),
                       !.rep = replacer, !.plugins = st.registry[x],
                       !.cur = x, !.lvl = @ + 1]
  IN IF InvalidReplacer(replacer)
     THEN [out |-> NoOut, st |-> [s1 EXCEPT !.err = "Error: JSON.stringify"]]
     ELSE str(<<>>, Obj(<<Fld(<<>>, value)>>), s1, <<>>)

(***************************************************************************)
(* The host parser JSON.parse(text, reviver), for texts whose numbers are  *)
(* integers: the grammar, then the bottom-up walk that calls the reviver.  *)
(***************************************************************************)
Fail == [ok |-> FALSE]
Ok(v, i) == [ok |-> TRUE, v |-> v, i |-> i]

IsWs(c) == c \in {32, 9, 10, 13}

RECURSIVE SkipWs(_, _)
SkipWs(t, i) == IF i <= Len(t) /\ IsWs(t[i]) THEN SkipWs(t, i + 1) ELSE i

IsHex(c) == IsDigit(c) \/ (c >= 97 /\ c <= 102) \/ (c >= 65 /\ c <= 70)
HexVal(c) == IF IsDigit(c) THEN c - 48 ELSE IF c >= 97 THEN c - 87 ELSE c - 55

\* The character an escape letter stands for; -1 when it is no escape.
Unescape(c) ==
  CASE c = Ord("\"") -> 34
    [] c = Ord("\\") -> 92
    [] c = Ord("/") -> 47
    [] c = Ord("b") -> 8
    [] c = Ord("f") -> 12
    [] c = Ord("n") -> 10
    [] c = Ord("r") -> 13
    [] c = Ord("t") -> 9
    [] OTHER -> -1

RECURSIVE ParseString(_, _, _)
ParseString(t, i, acc) ==
  IF i > Len(t) THEN Fail
  ELSE IF t[i] = 34 THEN Ok(Str(acc), i + 1)
  ELSE IF t[i] < 32 THEN Fail
  ELSE IF t[i] # 92 THEN ParseString(t, i + 1, Append(acc, t[i]))
  ELSE IF i + 1 > Len(t) THEN Fail
  ELSE IF t[i + 1] = Ord("u")
  THEN IF i + 5 <= Len(t) /\ \A j \in (i + 2)..(i + 5) : IsHex(t[j])
       THEN ParseString(t, i + 6,
              Append(acc, 4096 * HexVal(t[i + 2]) + 256 * HexVal(t[i + 3])
                          + 16 * HexVal(t[i + 4]) + HexVal(t[i + 5])))
       ELSE Fail
  ELSE IF Unescape(t[i + 1]) >= 0 THEN ParseString(t, i + 2, Append(acc, Unescape(t[i + 1])))
  ELSE Fail

RECURSIVE DigitsEnd(_, _)
DigitsEnd(t, i) == IF i <= Len(t) /\ IsDigit(t[i]) THEN DigitsEnd(t, i + 1) ELSE i

\* -? (0 | [1-9][0-9]*)
ParseNumber(t, i) ==
  LET neg == t[i] = Ord("-")
      b == IF neg THEN i + 1 ELSE i
      e == DigitsEnd(t, b)
  IN IF e = b \/ (e > b + 1 /\ t[b] = 48) THEN Fail
     ELSE Ok(Num(IF neg THEN 0 - DigitsVal(SubSeq(t, b, e - 1)) ELSE DigitsVal(SubSeq(t, b, e - 1))), e)

ParseLiteral(t, i, word, v) ==
  IF i + Len(word) - 1 <= Len(t) /\ SubSeq(t, i, i + Len(word) - 1) = word
  THEN Ok(v, i + Len(word)) ELSE Fail

\* A member set on an object: a repeated name keeps its place and takes the new value.
SetField(f, k, v) ==
  IF \E i \in 1..Len(f) : f[i].k = k
  THEN [i \in 1..Len(f) |-> IF f[i].k = k THEN Fld(k, v) ELSE f[i]]
  ELSE Append(f, Fld(k, v))

RECURSIVE ParseValue(_, _)
RECURSIVE ParseElements(_, _, _)
RECURSIVE ParseMembers(_, _, _)

ParseElements(t, i, acc) ==
  LET Then(r) ==
        IF ~r.ok THEN Fail
        ELSE LET j == SkipWs(t, r.i)
             IN IF j > Len(t) THEN Fail
                ELSE IF t[j] = Ord(",") THEN ParseElements(t, j + 1, Append(acc, r.v))
                ELSE IF t[j] = Ord("]") THEN Ok(Arr(Append(acc, r.v)), j + 1)
                ELSE Fail
  IN Then(ParseValue(t, i))

ParseMembers(t, i, acc) ==
  LET a == SkipWs(t, i)
  IN IF a > Len(t) \/ t[a] # 34 THEN Fail
     ELSE LET Name(k) ==
            IF ~k.ok THEN Fail
             ELSE LET c == SkipWs(t, k.i)
                  IN IF c > Len(t) \/ t[c] # Ord(":") THEN Fail
                     ELSE LET Then(r) ==
                                IF ~r.ok THEN Fail
                                ELSE LET j == SkipWs(t, r.i)
                                         f == SetField(acc, k.v.s, r.v)
                                     IN IF j > Len(t) THEN Fail
                                        ELSE IF t[j] = Ord(",") THEN ParseMembers(t, j + 1, f)
                                        ELSE IF t[j] = Ord("}") THEN Ok(Obj(f), j + 1)
                                        ELSE Fail
                          IN Then(ParseValue(t, c + 1))
          IN Name(ParseString(t, a + 1, <<>>))

ParseValue(t, i0) ==
  LET i == SkipWs(t, i0)
  IN IF i > Len(t) THEN Fail
     ELSE CASE t[i] = 34 -> ParseString(t, i + 1, <<>>)
            [] t[i] = Ord("[") ->
                 LET j == SkipWs(t, i + 1)
                 IN IF j <= Len(t) /\ t[j] = Ord("]") THEN Ok(Arr(<<>>), j + 1)
                    ELSE ParseElements(t, i + 1, <<>>)
            [] t[i] = Ord("{") ->
                 LET j == SkipWs(t, i + 1)
                 IN IF j <= Len(t) /\ t[j] = Ord("}") THEN Ok(Obj(<<>>), j + 1)
                    ELSE ParseMembers(t, i + 1, <<>>)
            [] t[i] = Ord("-") \/ IsDigit(t[i]) -> ParseNumber(t, i)
            [] t[i] = Ord("t") -> ParseLiteral(t, i, U(<<"t", "r", "u", "e">>), Bool(TRUE))
            [] t[i] = Ord("f") -> ParseLiteral(t, i, U(<<"f", "a", "l", "s", "e">>), Bool(FALSE))
            [] t[i] = Ord("n") -> ParseLiteral(t, i, U(<<"n", "u", "l", "l">>), Null)
            [] OTHER -> Fail

\* JSON.parse(text) with no reviver: the value, or a SyntaxError.
JSONparse(text) ==
  LET Then(r) == IF r.ok /\ SkipWs(text, r.i) > Len(text) THEN [ok |-> TRUE, v |-> r.v] ELSE Fail
  IN Then(ParseValue(text, 1))

(***************************************************************************)
(* The decoder.  ctx carries the plugins and the reviver of the call, the  *)
(* hook invocations so far (log) and the exception thrown, if any (err).   *)
(***************************************************************************)
T_undefined == U(<<"u", "n", "d", "e", "f", "i", "n", "e", "d">>)
T_number == U(<<"n", "u", "m", "b", "e", "r">>)
T_bigint == U(<<"b", "i", "g", "i", "n", "t">>)
T_date == U(<<"d", "a", "t", "e">>)

\* [-+]?[0-9]+
IsIntText(s) ==
  LET b == IF s # <<>> /\ s[1] \in {Ord("-"), Ord("+")} THEN 2 ELSE 1
  IN b <= Len(s) /\ \A i \in b..Len(s) : IsDigit(s[i])

IntTextVal(s) ==
  IF s[1] = Ord("-") THEN 0 - DigitsVal(Tail(s))
  ELSE IF s[1] = Ord("+") THEN DigitsVal(Tail(s))
  ELSE DigitsVal(s)

\* The switch on parsedResult.type: the decoded result, or the exception BigInt throws.
TagDecode(parsed, value) ==
  LET keep == [v |-> value, err |-> ""]
      to(v) == [v |-> v, err |-> ""]
  IN IF parsed.type.t # "string" THEN keep
     ELSE CASE parsed.type.s = T_undefined -> to(Undef)
            [] parsed.type.s = T_number ->
                 (CASE parsed.value.s = U(<<"N", "a", "N">>) -> to(NaN)
                    [] parsed.value.s = U(<<"I", "n", "f", "i", "n", "i", "t", "y">>) -> to(PosInf)
                    [] parsed.value.s = U(<<"-", "I", "n", "f", "i", "n", "i", "t", "y">>) -> to(NegInf)
                    [] OTHER -> keep)
            [] parsed.type.s = T_bigint ->
                 IF parsed.value.s = <<>> THEN to(Big(0))
                 ELSE IF IsIntText(parsed.value.s) THEN to(Big(IntTextVal(parsed.value.s)))
                 ELSE [v |-> value, err |-> "SyntaxError: BigInt"]
            [] parsed.type.s = T_date ->
                 IF parsed.value.s = <<>> THEN to(Date(0))
                 ELSE IF IsIntText(parsed.value.s) THEN to(Date(IntTextVal(parsed.value.s)))
                 ELSE to(InvalidDate)
            [] OTHER -> keep

DLogged(ctx, who, idx, pid, node, key, value, raw, tag, ret) ==
  [ctx EXCEPT !.log = Append(@,
     [who |-> who, idx |-> idx, pid |-> pid, node |-> node, key |-> key,
      value |-> value, raw |-> raw, tag |-> tag, ret |-> ret])]

\* reviver(key, result, value, parsedResult)
CallReviver(h, who, idx, pid, node, key, result, value, tag, ctx) ==
  [v |-> HookValue(h, result, value),
   ctx |-> DLogged(ctx, who, idx, pid, node, key, result, value, tag,
                   HookValue(h, result, value))]

RECURSIVE ReviverLoop(_, _, _, _, _, _, _)
ReviverLoop(index, node, key, result, value, tag, ctx) ==
  IF index > Len(ctx.plugins) THEN [v |-> result, ctx |-> ctx]
  ELSE LET pid == ctx.plugins[index]
           h == Plugin(pid).reviver
           Then(r) == ReviverLoop(index + 1, node, key, r.v, value, tag, r.ctx)
       IN Then(IF h # "none"
               THEN CallReviver(h, "plugin", index, pid, node, key, result, value, tag, ctx)
               ELSE [v |-> result, ctx |-> ctx])

\* The function handed to JSON.parse: function (key, value) { ... return result; }
NodeHook(key, value, ctx, node) ==
  LET shaped == value.t = "string" /\ IsTokenShape(value.s)
      Return(p, tag) ==
        [v |-> IF p.v = Undef THEN undefinedSymbol ELSE p.v,
         ctx |-> DLogged(p.ctx, "return", 0, "return", node, key, p.v, value, tag,
                         IF p.v = Undef THEN undefinedSymbol ELSE p.v)]
      Plugins(r, tag) == Return(ReviverLoop(1, node, key, r.v, value, tag, r.ctx), tag)
      Reviver(d, tag) ==
        IF d.err # "" THEN [v |-> value, ctx |-> [ctx EXCEPT !.err = d.err]]
        ELSE Plugins(IF Truthy(ctx.reviver)
                     THEN CallReviver(ctx.reviver.h, "reviver", 0, "reviver", node, key, d.v,
                                      value, tag, ctx)
                     ELSE [v |-> d.v, ctx |-> ctx],
                     tag)
      Decode(parsedResult) ==
        Reviver(TagDecode(parsedResult, value),
                [t |-> "tag", type |-> parsedResult.type, value |-> parsedResult.value])
  IN IF shaped THEN Decode(parseDataURL(value.s))
     ELSE Reviver([v |-> value, err |-> ""], Undef)

\* The host parser's walk: the children of a node first, then the node itself.
RECURSIVE Internalize(_, _, _, _)
RECURSIVE InternalizeAll(_, _, _, _)

\* Every child of val in turn, each replaced by what the walk returns for it.
InternalizeAll(i, val, ctx, node) ==
  LET n == IF val.t = "array" THEN Len(val.e) ELSE Len(val.f)
  IN IF i > n \/ ctx.err # "" THEN [v |-> val, ctx |-> ctx]
     ELSE LET k == IF val.t = "array" THEN NumStr(i - 1) ELSE val.f[i].k
              c == IF val.t = "array" THEN val.e[i] ELSE val.f[i].v
              Then(r) ==
                InternalizeAll(i + 1,
                               IF val.t = "array" THEN [val EXCEPT !.e[i] = r.v]
                               ELSE [val EXCEPT !.f[i] = Fld(k, r.v)],
                               r.ctx, node)
          IN Then(Internalize(c, k, ctx, node))

Internalize(val, key, ctx, up) ==
  LET node == Append(up, key)
      Then(r) == IF r.ctx.err # "" THEN r ELSE NodeHook(key, r.v, r.ctx, node)
  IN Then(IF val.t \in {"array", "object"} THEN InternalizeAll(1, val, ctx, node)
          ELSE [v |-> val, ctx |-> ctx])

(***************************************************************************)
(* The sweep.  A queued object is named by its place in json: the child    *)
(* indices that lead to it.                                                *)
(***************************************************************************)
Kids(v) ==
  CASE v.t = "array" -> Len(v.e)
    [] v.t = "object" -> Len(v.f)
    [] OTHER -> 0

Child(v, i) == IF v.t = "array" THEN v.e[i] ELSE v.f[i].v

RECURSIVE At(_, _)
At(v, p) == IF p = <<>> THEN v ELSE At(Child(v, Head(p)), Tail(p))

RECURSIVE Put(_, _, _)
Put(v, p, x) ==
  IF p = <<>> THEN x
  ELSE IF v.t = "array" THEN [v EXCEPT !.e[Head(p)] = Put(@, Tail(p), x)]
  ELSE [v EXCEPT !.f[Head(p)].v = Put(@, Tail(p), x)]

\* for (let index = 0; index < keys.length; index++) { ... }
RECURSIVE SweepKeys(_, _, _, _)
SweepKeys(json, cur, index, queue) ==
  IF index > Kids(At(json, cur)) THEN [json |-> json, queue |-> queue]
  ELSE LET value == Child(At(json, cur), index)
           here == Append(cur, index)
       IN IF value = undefinedSymbol
          THEN SweepKeys(Put(json, here, Undef), cur, index + 1, queue)
          ELSE IF Truthy(value) /\ TypeOf(value) = "object"
          THEN SweepKeys(json, cur, index + 1, Append(queue, here))
          ELSE SweepKeys(json, cur, index + 1, queue)

\* while (queue.length > 0) { ... queue.shift(); }.  Object.keys(null) throws.
RECURSIVE SweepLoop(_, _)
SweepLoop(json, queue) ==
  IF queue = <<>> THEN [err |-> "", v |-> json]
  ELSE IF At(json, queue[1]).t \in {"null", "undefined"}
  THEN [err |-> "TypeError: Object.keys", v |-> json]
  ELSE LET Then(r) == SweepLoop(r.json, Tail(r.queue))
       IN Then(SweepKeys(json, queue[1], 1, queue))

Sweep(json) == SweepLoop(json, <<<<>>>>)

\* JSSerialization.parse(text, reviver) on instance x
parse(x, text, reviver, reg) ==
  LET ctx0 == [plugins |-> reg[x], reviver |-> reviver, log |-> <<>>, err |-> ""]
      Swept(s, log) == [err |-> s.err, v |-> IF s.err = "" THEN s.v ELSE Undef, log |-> log]
      Walked(w) ==
        IF w.ctx.err # "" THEN [err |-> w.ctx.err, v |-> Undef, log |-> w.ctx.log]
        ELSE Swept(Sweep(w.v), w.ctx.log)
      Parsed(host) ==
        IF ~host.ok THEN [err |-> "SyntaxError", v |-> Undef, log |-> <<>>]
        ELSE Walked(Internalize(host.v, <<>>, ctx0, <<>>))
  IN Parsed(JSONparse(text))

(***************************************************************************)
(* The state machine.  call is the record of the last API call.            *)
(***************************************************************************)
BlankCall ==
  [op |-> "none", x |-> 0, value |-> Undef, replacer |-> Undef, space |-> Undef,
   text |-> <<>>, type |-> <<>>, reviver |-> Undef, out |-> NoOut, res |-> Undef,
   err |-> "", log |-> <<>>, from |-> Undef, rt |-> FALSE, before |-> <<>>]

\* The module-level variables and the registries, as the encoder reads them.
Now ==
  [path |-> path, gap |-> gap, indent |-> indent, rep |-> rep, plugins |-> plugins,
   registry |-> registry, log |-> <<>>, cur |-> 0, lvl |-> 0, err |-> "", node |-> <<>>]

Instances == 1..Len(registry)

\* No parse call is in its sweep.
NoSweep == [run |-> "idle", heap |-> <<>>, json |-> Undef, queue |-> <<>>, scans |-> <<>>]

\* const jss = new JSSerialization(): one instance, nothing registered; the
\* module-level variables are declared and not yet assigned.
Init ==
  /\ registry = <<<<>>>>
  /\ path = <<>>
  /\ gap = <<>>
  /\ indent = <<>>
  /\ rep = Undef
  /\ plugins = <<>>
  /\ call = BlankCall
  /\ sweep = NoSweep

\* jss.create()
Create ==
  /\ Len(registry) < MaxInstances
  /\ registry' = Append(registry, <<>>)
  /\ call' = [BlankCall EXCEPT !.op = "create", !.x = Len(registry) + 1]
  /\ UNCHANGED <<path, gap, indent, rep, plugins, sweep>>

\* x.register(p).  A plugin whose hook calls stringify on the instance
\* NestTarget is registered on another instance, once NestTarget exists.
Register(x, p) ==
  /\ Len(registry[x]) < MaxPlugins
  /\ p = "N" => (x # NestTarget /\ NestTarget \in Instances)
  /\ registry' = [registry EXCEPT ![x] = @ \o <<p>>]
  /\ call' = [BlankCall EXCEPT !.op = "register", !.x = x]
  /\ UNCHANGED <<path, gap, indent, rep, plugins, sweep>>

\* x.stringify(value, replacer, space)
Stringify(x, value, replacer, space) ==
  LET Returned(r) ==
        /\ path' = r.st.path
        /\ gap' = r.st.gap
        /\ indent' = r.st.indent
        /\ rep' = r.st.rep
        /\ plugins' = r.st.plugins
        /\ call' = [BlankCall EXCEPT !.op = "stringify", !.x = x, !.value = value,
                                     !.replacer = replacer, !.space = space,
                                     !.out = r.out, !.err = r.st.err, !.log = r.st.log,
                                     !.before = path]
        /\ UNCHANGED <<registry, sweep>>
  IN Returned(stringify(x, value, replacer, space, Now))

\* x.parse(text, reviver); from is the value the text was made from, if any.
Parse(x, text, reviver, from, rt) ==
  LET Returned(r) ==
        /\ call' = [BlankCall EXCEPT !.op = "parse", !.x = x, !.text = text,
                                     !.reviver = reviver, !.res = r.v, !.err = r.err,
                                     !.log = r.log, !.from = from, !.rt = rt]
        /\ UNCHANGED <<registry, path, gap, indent, rep, plugins, sweep>>
  IN Returned(parse(x, text, reviver, registry))

\* jss.toDataURL(type, value)
ToDataURL(type, value) ==
  /\ call' = [BlankCall EXCEPT !.op = "toDataURL", !.type = type, !.text = value,
                               !.out = Out(toDataURL(type, value))]
  /\ UNCHANGED <<registry, path, gap, indent, rep, plugins, sweep>>

\* jss.parseDataURL(text)
ParseDataURL(text, type, value, rt) ==
  /\ call' = [BlankCall EXCEPT !.op = "parseDataURL", !.text = text,
                               !.res = parseDataURL(text),
                               !.type = type, !.from = Str(value), !.rt = rt]
  /\ UNCHANGED <<registry, path, gap, indent, rep, plugins, sweep>>

(***************************************************************************)
(* The inputs the calls are tried on.                                      *)
(***************************************************************************)
K_a == U(<<"a">>)
K_b == U(<<"b">>)
K_c == U(<<"c">>)
S_NaNToken == toDataURL(T_number, U(<<"N", "a", "N">>))

\* Strings: empty, plain, with a quote, with a line feed, with DEL, with commas.
PlainStrings ==
  {<<>>, K_a, U(<<"q", "\"">>), <<10>>, <<127>>, U(<<"a", ",", "b">>),
   U(<<"d", "a", "t", "a", ":">>)}

\* Strings that have, or nearly have, the shape of a tagged token.
TokenStrings ==
  {S_NaNToken,
   toDataURL(T_undefined, <<>>),
   toDataURL(T_bigint, U(<<"1", "2">>)),
   toDataURL(T_date, U(<<"5">>)),
   toDataURL(T_number, U(<<"7">>)),
   toDataURL(U(<<"x">>), U(<<"1">>)),
   toDataURL(U(<<"n", "u", "m", "b", "e", "r", ":", "x">>), U(<<"N", "a", "N">>)),
   toDataURL(U(<<"x", ":", "n", "u", "m", "b", "e", "r">>), U(<<"N", "a", "N">>)),
   toDataURL(T_number, U(<<"N", "a", "N", ",">>)),
   toDataURL(<<>>, U(<<"1">>)),
   U(<<"x">>) \o S_NaNToken}

Leaves ==
  {Undef, Null, Bool(TRUE), Bool(FALSE), Num(0), Num(-12), NaN, PosInf, NegInf,
   Big(7), Big(-3), Date(5), InvalidDate}
    \cup {Str(s) : s \in PlainStrings \cup TokenStrings}

SmallLeaves == {Undef, Null, Num(1), Str(K_a)}

KeyList == <<K_a, K_b, K_c>>

\* Arrays and keyed structures of n small leaves.
FlatOf(n) ==
  {Arr(e) : e \in [1..n -> SmallLeaves]}
    \cup {Obj([i \in 1..n |-> Fld(KeyList[i], e[i])]) : e \in [1..n -> SmallLeaves]}

Flat == UNION {FlatOf(n) : n \in 0..MaxLen}

Nested ==
  UNION {{Arr(<<c>>), Obj(<<Fld(K_a, c)>>), Arr(<<Undef, c>>), Obj(<<Fld(K_a, Null), Fld(K_b, c)>>)} :
           c \in FlatOf(0) \cup FlatOf(1)}

PlainValues ==
  Leaves \cup Flat \cup Nested
    \cup {WithToJSON(Num(3)), Arr(<<WithToJSON(Str(K_a))>>), Fn("none"), Arr(<<Fn("none")>>),
          Obj(<<Fld(K_a, Fn("none")), Fld(K_b, Num(1))>>)}

\* Entries of an inclusion list.
ListEntrySet == {Str(K_a), Str(K_c), Num(1)}

Lists == UNION {{Arr(l) : l \in [1..n -> ListEntrySet]} : n \in 0..MaxListLen}

\* The values with which the list replacer is tried.
ListValues ==
  {Obj(<<Fld(K_a, Num(1)), Fld(K_b, Num(2)), Fld(K_c, Num(3))>>),
   Obj(<<Fld(K_a, Obj(<<Fld(K_c, Null), Fld(K_b, Num(1))>>)), Fld(K_b, Num(2))>>),
   Arr(<<Num(1), Obj(<<Fld(K_b, Num(2)), Fld(K_a, Undef)>>)>>),
   Arr(<<Num(1), Num(2)>>),
   Num(1)}

PlainReplacers ==
  {Undef, Null, Num(0), Num(7), Bool(FALSE), Bool(TRUE), Str(<<>>), Str(K_a), NaN,
   Obj(<<>>), Obj(<<Fld(U(<<"l", "e", "n", "g", "t", "h">>), Str(K_a))>>),
   Obj(<<Fld(U(<<"l", "e", "n", "g", "t", "h">>), Num(0))>>), Fn("inc")}

PlainSpaces == {Undef, Num(0), Num(1), Num(11), Str(U(<<"-", "-">>)), Bool(TRUE)}

\* Texts handed to parse directly.
PlainTexts ==
  {U(<<"n", "u", "l", "l">>),
   U(<<"1">>),
   U(<<"-", "0", "1">>),
   U(<<"t", "r", "u">>),
   U(<<"t", "r", "u", "e">>),
   U(<<"[", "n", "u", "l", "l", "]">>),
   U(<<" ", "[", " ", "1", " ", ",", " ", "2", " ", "]", " ">>),
   U(<<"[", "1", ",", "]">>),
   U(<<"{", "\"", "a", "\"", ":", "n", "u", "l", "l", "}">>),
   U(<<"{", "\"", "a", "\"", ":", "1", ",", "\"", "a", "\"", ":", "2", "}">>),
   U(<<"\"", "\\", "u", "0", "0", "4", "1", "\\", "n", "\"">>),
   quote(toDataURL(T_bigint, U(<<"z">>))),
   quote(toDataURL(T_bigint, <<>>)),
   quote(toDataURL(T_date, <<>>)),
   U(<<"[", "[">>) \o quote(toDataURL(T_undefined, <<>>)) \o U(<<"]", "]">>)}
    \cup {quote(s) : s \in PlainStrings \cup TokenStrings}

\* Types and payloads of the tag codec.
CodecTypes ==
  {T_undefined, T_number, T_bigint, T_date, U(<<"x">>), <<>>, U(<<"a", "b">>)}

CodecPayloads ==
  {<<>>, U(<<"1">>), U(<<"N", "a", "N">>), U(<<"a", ",", "b">>), U(<<",">>),
   U(<<"a", ",", "b", ",", "c">>), U(<<"a", ":", "b">>), U(<<"-", "5">>)}

\* Tokens handed to parseDataURL directly.
CodecTokens ==
  {U(<<"x">>), U(<<"d", "a", "t", "a", ":", "t">>), U(<<"t", ",", "v">>), <<>>,
   U(<<"d", "a", "t", "a", ":", "a", ":", "b", ",", "v">>)}

(***************************************************************************)
(* SpecPlain: the default instance with nothing registered.  One call of   *)
(* the API on every input, then the call that undoes it.                   *)
(***************************************************************************)
\* Characters at the edges of every range of rx_escapable, and a lone surrogate.
QuoteChars ==
  {8, 9, 10, 12, 13, 34, 92, 0, 31, 32, 65, 117, 126, 127, 159, 160, 173, 1536, 1541,
   8232, 8303, 8304, 65279, 65519, 65520, 65535, 55357}

QuoteStrings == UNION {[1..n -> QuoteChars] : n \in 0..MaxLen}

\* jss.quote(string)
Quote(string) ==
  /\ call' = [BlankCall EXCEPT !.op = "quote", !.text = string, !.out = Out(quote(string))]
  /\ UNCHANGED <<registry, path, gap, indent, rep, plugins, sweep>>

QuoteString ==
  /\ call.op = "none"
  /\ \E string \in QuoteStrings : Quote(string)

PlainStringify ==
  /\ call.op = "none"
  /\ \E value \in PlainValues, space \in PlainSpaces : Stringify(1, value, Undef, space)

ReplacerStringify ==
  /\ call.op = "none"
  /\ \E value \in ListValues, replacer \in PlainReplacers \cup Lists :
       Stringify(1, value, replacer, Undef)

RoundTrip ==
  /\ call.op = "stringify"
  /\ call.replacer = Undef
  /\ call.out.def
  /\ Parse(1, call.out.s, Undef, call.value, call.space = Undef)

PlainParse ==
  /\ call.op = "none"
  /\ \E text \in PlainTexts : Parse(1, text, Undef, Undef, FALSE)

EncodeTag ==
  /\ call.op = "none"
  /\ \E type \in CodecTypes, value \in CodecPayloads : ToDataURL(type, value)

DecodeTag ==
  \/ /\ call.op = "toDataURL"
     /\ ParseDataURL(call.out.s, call.type, call.text, TRUE)
  \/ /\ call.op = "none"
     /\ \E text \in CodecTokens : ParseDataURL(text, <<>>, <<>>, FALSE)

NextPlain ==
  \/ PlainStringify
  \/ ReplacerStringify
  \/ RoundTrip
  \/ PlainParse
  \/ EncodeTag
  \/ DecodeTag
  \/ QuoteString

SpecPlain == Init /\ [][NextPlain]_vars

(***************************************************************************)
(* The engine: instances are created, plugins registered, and stringify    *)
(* and parse called on any instance in any order, with a replacer or a     *)
(* reviver or without.                                                     *)
(***************************************************************************)
PluginIds == {"A", "B", "N"}

EngineValues ==
  {Arr(<<Num(1), Null>>), Obj(<<Fld(K_a, WithToJSON(Num(2)))>>)}

EngineReplacers == {Undef, Fn("inc")}

EngineSpaces == {Undef, Num(1)}

EngineTexts ==
  {U(<<"n", "u", "l", "l">>),
   U(<<"[", "1", ",", "n", "u", "l", "l", "]">>),
   quote(S_NaNToken)}

EngineRevivers == {Undef, Fn("inc")}

Next ==
  \/ Create
  \/ \E x \in Instances, p \in PluginIds : Register(x, p)
  \/ \E x \in Instances, value \in EngineValues, replacer \in EngineReplacers,
        space \in EngineSpaces : Stringify(x, value, replacer, space)
  \/ \E x \in Instances, text \in EngineTexts, reviver \in EngineRevivers :
        Parse(x, text, reviver, Undef, FALSE)

Spec == Init /\ [][Next]_vars

(***************************************************************************)
(* Top-level stringify calls one after another on the default instance,    *)
(* with plugins registered in between; a replacer that throws at a null    *)
(* value aborts the call where it stands.                                  *)
(***************************************************************************)
CallValues ==
  {Num(1),
   Arr(<<Num(1), Null>>),
   Arr(<<Arr(<<Num(1)>>), Obj(<<>>)>>),
   Obj(<<Fld(K_a, Arr(<<Null, Num(2)>>)), Fld(K_b, Arr(<<>>))>>),
   Obj(<<Fld(K_a, Obj(<<Fld(K_b, Num(1))>>)), Fld(K_b, Fn("inc"))>>),
   Obj(<<Fld(K_b, Fn("inc"))>>)}

CallReplacers == {Undef, Fn("throw"), Arr(<<Str(K_b), Str(K_a)>>)}

CallSpaces == {Undef, Num(2), Str(U(<<"-", "-">>))}

RegisterHook == \E p \in {"A", "B"} : Register(1, p)

EncodeCall ==
  \E value \in CallValues, replacer \in CallReplacers, space \in CallSpaces :
    Stringify(1, value, replacer, space)

NextCalls == RegisterHook \/ EncodeCall

SpecCalls == Init /\ [][NextCalls]_vars

(***************************************************************************)
(* The sweep of parse, one iteration of its while loop at a time, over the *)
(* objects the host-parser pass returned.  An object is named by its       *)
(* identity, so that a reviver or a plugin hook may have put the same      *)
(* object in several fields, or an object inside itself.  A field holds a  *)
(* primitive, the placeholder, or a reference to an object.                *)
(***************************************************************************)
Prim == [t |-> "prim"]
Ref(id) == [t |-> "ref", id |-> id]

Slots == {Prim, undefinedSymbol} \cup {Ref(id) : id \in 1..MaxObjects}

Heaps == [1..MaxObjects -> UNION {[1..n -> Slots] : n \in 0..MaxLen}]

\* const json = JSON.parse(text, function (key, value) { ... }); const queue = [json];
HostPass ==
  /\ sweep.run = "idle"
  /\ \E heap \in Heaps, json \in {Prim, Ref(1)} :
       sweep' = [run |-> "running", heap |-> heap, json |-> json, queue |-> <<json>>,
                 scans |-> [id \in 1..MaxObjects |-> 0]]
  /\ UNCHANGED <<registry, path, gap, indent, rep, plugins, call>>

\* current[key] = undefined for every key that holds the placeholder
Swept(fields) ==
  [i \in 1..Len(fields) |-> IF fields[i] = undefinedSymbol THEN Undef ELSE fields[i]]

\* queue.push(value) for every key that holds an object, in key order
Pushed(fields) == SelectSeq(fields, LAMBDA v : v.t = "ref")

\* One iteration of while (queue.length > 0) { ... queue.shift(); }
SweepStep ==
  /\ sweep.run = "running"
  /\ sweep.queue # <<>>
  /\ Len(sweep.queue) <= MaxQueue
  /\ LET current == Head(sweep.queue)
         Shifted(queue) ==
           [sweep EXCEPT !.queue = queue,
                         !.run = IF queue = <<>> THEN "done" ELSE "running"]
     IN IF current.t = "ref"
        THEN sweep' = [Shifted(Tail(sweep.queue) \o Pushed(sweep.heap[current.id]))
                         EXCEPT !.heap[current.id] = Swept(@),
                                !.scans[current.id] = IF @ < MaxScans THEN @ + 1 ELSE @]
        ELSE sweep' = Shifted(Tail(sweep.queue))
  /\ UNCHANGED <<registry, path, gap, indent, rep, plugins, call>>

\* return json; the next parse call can start.
SweepReturn ==
  /\ sweep.run = "done"
  /\ sweep' = NoSweep
  /\ UNCHANGED <<registry, path, gap, indent, rep, plugins, call>>

NextSweep == HostPass \/ SweepStep \/ SweepReturn

\* parse runs to completion: an enabled loop iteration is taken.
SpecSweep == Init /\ [][NextSweep]_vars /\ WF_vars(SweepStep)

(***************************************************************************)
(* The host format's own serializer, JSON.stringify(value, undefined,      *)
(* space), on values without surrogate code units, and its own parser.     *)
(***************************************************************************)
NativeEscapeChar(c) ==
  IF InMeta(c) THEN meta(c)
  ELSE IF c < 32 THEN UEscape(c)
  ELSE <<c>>

RECURSIVE NativeEscapeAll(_)
NativeEscapeAll(s) ==
  IF s = <<>> THEN <<>> ELSE NativeEscapeChar(Head(s)) \o NativeEscapeAll(Tail(s))

NativeQuote(s) == U(<<"\"">>) \o NativeEscapeAll(s) \o U(<<"\"">>)

\* The indent unit: at most ten spaces, or the first ten characters of a string.
NativeGap(space) ==
  CASE space.t = "number" -> [i \in 1..(IF space.n > 10 THEN 10 ELSE space.n) |-> 32]
    [] space.t = "string" -> SubSeq(space.s, 1, IF Len(space.s) > 10 THEN 10 ELSE Len(space.s))
    [] OTHER -> <<>>

NativeWrap(open, close, partial, ind, stepback, g) ==
  IF partial = <<>> THEN open \o close
  ELSE IF g = <<>> THEN open \o Join(partial, U(<<",">>)) \o close
  ELSE open \o <<10>> \o ind \o Join(partial, U(<<",">>) \o <<10>> \o ind)
       \o <<10>> \o stepback \o close

RECURSIVE NativeSer(_, _, _)
RECURSIVE NativeElements(_, _, _)
RECURSIVE NativeMembers(_, _, _)

NativeElements(e, ind, g) ==
  IF e = <<>> THEN <<>>
  ELSE LET Then(r) ==
             <<IF r.def THEN r.s ELSE U(<<"n", "u", "l", "l">>)>>
               \o NativeElements(Tail(e), ind, g)
       IN Then(NativeSer(Head(e), ind, g))

NativeMembers(f, ind, g) ==
  IF f = <<>> THEN <<>>
  ELSE LET Then(r) ==
             (IF r.def
              THEN <<NativeQuote(Head(f).k)
                       \o (IF g # <<>> THEN U(<<":", " ">>) ELSE U(<<":">>)) \o r.s>>
              ELSE <<>>)
               \o NativeMembers(Tail(f), ind, g)
       IN Then(NativeSer(Head(f).v, ind, g))

NativeSer(v, stepback, g) ==
  CASE v.t = "tojson" -> NativeSer(v.r, stepback, g)
    [] v.t = "null" -> Out(U(<<"n", "u", "l", "l">>))
    [] v.t = "boolean" ->
         Out(IF v.b THEN U(<<"t", "r", "u", "e">>) ELSE U(<<"f", "a", "l", "s", "e">>))
    [] v.t = "number" -> Out(NumStr(v.n))
    [] v.t = "string" -> Out(NativeQuote(v.s))
    [] v.t = "array" ->
         Out(NativeWrap(U(<<"[">>), U(<<"]">>), NativeElements(v.e, stepback \o g, g),
                        stepback \o g, stepback, g))
    [] v.t = "object" ->
         Out(NativeWrap(U(<<"{">>), U(<<"}">>), NativeMembers(v.f, stepback \o g, g),
                        stepback \o g, stepback, g))
    [] OTHER -> NoOut

NativeStringify(value, space) == NativeSer(value, <<>>, NativeGap(space))

NativeParse(text) == JSONparse(text)

(***************************************************************************)
(* What the claims speak of.                                               *)
(***************************************************************************)
RECURSIVE Nodes(_)
\* v and every element and field value inside it.
Nodes(v) ==
  {v} \cup (IF v.t = "array" THEN UNION {Nodes(v.e[i]) : i \in 1..Len(v.e)}
            ELSE IF v.t = "object" THEN UNION {Nodes(v.f[i].v) : i \in 1..Len(v.f)}
            ELSE {})

IsTokenString(v) == v.t = "string" /\ IsTokenShape(v.s)

\* The values the round trip is claimed for, token-shaped strings left out.
RoundTripType(v) ==
  /\ v.t \in {"undefined", "string", "number", "NaN", "Infinity", "-Infinity", "boolean",
              "null", "bigint", "date", "array", "object"}
  /\ ~IsTokenString(v)

\* The values of the plain host format.
PlainType(v) == v.t \in {"string", "number", "boolean", "null", "array", "object"}

\* The text between "data:" and the first comma of a token-shaped string.
TypeComponent(s) == SubSeq(Split(s, Comma)[1], Len(DataPrefix) + 1, Len(Split(s, Comma)[1]))

RecognizedToken(v) ==
  /\ IsTokenString(v)
  /\ TypeComponent(v.s) \in {T_undefined, T_number, T_bigint, T_date}

\* The string entries of an inclusion list, each name once, in first-occurrence order.
RECURSIVE DistinctStrings(_, _)
DistinctStrings(l, seen) ==
  IF l = <<>> THEN <<>>
  ELSE IF Head(l).t = "string" /\ Head(l) \notin seen
  THEN <<Head(l)>> \o DistinctStrings(Tail(l), seen \cup {Head(l)})
  ELSE DistinctStrings(Tail(l), seen)

(***************************************************************************)
(* C1.  Round trip: for every value v built from undefined, strings,       *)
(* numbers, NaN, the infinities, booleans, null, bigints, dates, arrays    *)
(* and keyed structures (v itself any of these), with no plugin, replacer  *)
(* or reviver, parse(stringify(v)) returns a value deeply equal to v.      *)
(* Stated here for strings that do not have the token shape.               *)
(***************************************************************************)
C1_RoundTrip ==
  (call.op = "parse" /\ call.rt /\ (\A n \in Nodes(call.from) : RoundTripType(n)))
    => (call.err = "" /\ call.res = call.from)

(***************************************************************************)
(* C2.  Plain-JSON equivalence: with no plugin, replacer or reviver,       *)
(* stringify(value, undefined, space) of a value without extended types    *)
(* is the text of the native serializer, and parse(text) of a text without *)
(* tagged-token strings returns what the native parser returns and fails   *)
(* only when the native parser fails.                                      *)
(***************************************************************************)
C2_PlainJSONEquivalence ==
  /\ (call.op = "stringify" /\ call.replacer = Undef /\ (\A n \in Nodes(call.value) : PlainType(n)))
       => (call.err = "" /\ call.out = NativeStringify(call.value, call.space))
  /\ (call.op = "parse" /\ call.reviver = Undef)
       => IF NativeParse(call.text).ok
          THEN (\A n \in Nodes(NativeParse(call.text).v) : ~IsTokenString(n))
                 => (call.err = "" /\ call.res = NativeParse(call.text).v)
          ELSE call.err = "SyntaxError"

(***************************************************************************)
(* C3.  Inclusion-list replacer: a keyed structure is encoded by walking   *)
(* the list in order, honouring only its string entries, each distinct     *)
(* name producing at most one field however often the list names it;       *)
(* arrays are not filtered by the list.                                    *)
(***************************************************************************)
C3_InclusionList ==
  (call.op = "stringify" /\ call.replacer.t = "array")
    => /\ call.out = stringify(1, call.value, Arr(DistinctStrings(call.replacer.e, {})),
                               call.space, [Now EXCEPT !.path = <<>>]).out
       /\ (call.value.t = "array" /\ \A i \in 1..Len(call.value.e) : call.value.e[i].t = "number")
            => call.out = NativeStringify(call.value, call.space)

(***************************************************************************)
(* C4 as claimed.  stringify throws, before encoding any node, for every   *)
(* replacer that is not a function, not null, not undefined and not an     *)
(* array-like value with a numeric length, 0 and false included; for the   *)
(* four accepted kinds it does not throw.                                  *)
(***************************************************************************)
AcceptedReplacer(r) ==
  \/ r.t \in {"function", "null", "undefined", "array"}
  \/ r.t = "object" /\ HasNumericLength(r)

C4_ThrowsOnEveryOtherReplacer ==
  call.op = "stringify"
    => /\ ~AcceptedReplacer(call.replacer) => (call.err # "" /\ ~call.out.def /\ call.log = <<>>)
       /\ AcceptedReplacer(call.replacer) => call.err = ""

(***************************************************************************)
(* C4 as amended.  stringify throws, before encoding any node, exactly for *)
(* the replacers that are truthy, are not functions and are not objects    *)
(* with a numeric length: nonzero numbers, true, non-empty strings,        *)
(* objects without a numeric length.  The falsy ones (0, NaN, false, the   *)
(* empty string) are taken as no replacer, like null and undefined.        *)
(***************************************************************************)
FalsyReplacer(r) ==
  \/ r.t \in {"null", "undefined", "NaN"}
  \/ r.t = "number" /\ r.n = 0
  \/ r.t = "boolean" /\ ~r.b
  \/ r.t = "string" /\ Len(r.s) = 0

C4_ReplacerValidation ==
  call.op = "stringify"
    => IF AcceptedReplacer(call.replacer) \/ FalsyReplacer(call.replacer)
       THEN call.err = "" /\ call.log # <<>>
       ELSE call.err # "" /\ ~call.out.def /\ call.log = <<>>

C4_Witness ==
  /\ call.op = "stringify"
  /\ call.replacer = Bool(TRUE)
  /\ call.err # ""

(***************************************************************************)
(* C8.  parseDataURL splits on the first comma only: for a type t without  *)
(* comma or colon and any payload p, parseDataURL(toDataURL(t, p)) is      *)
(* {type: t, value: p}, also when p contains commas.                       *)
(***************************************************************************)
C8_FirstSeparator ==
  (call.op = "parseDataURL" /\ call.rt
     /\ \A i \in 1..Len(call.type) : call.type[i] \notin {Comma, Colon})
    => call.res = [type |-> Str(call.type), value |-> call.from]

(***************************************************************************)
(* C9.  Conservative tag detection: with no reviver and no plugin, a       *)
(* string node is returned unchanged, and no error is raised, unless it    *)
(* has the token shape and its type component, the whole text between      *)
(* "data:" and the first comma, is undefined, number, bigint or date.      *)
(***************************************************************************)
C9_ConservativeDetection ==
  (call.op = "parse" /\ call.reviver = Undef /\ NativeParse(call.text).ok
     /\ NativeParse(call.text).v.t = "string"
     /\ ~RecognizedToken(NativeParse(call.text).v))
    => (call.err = "" /\ call.res = NativeParse(call.text).v)

(***************************************************************************)
(* C10.  Sentinel sweep completeness: when parse returns, the placeholder  *)
(* sentinel is nowhere in the returned value, neither as the root nor as a *)
(* field or element at any depth.                                          *)
(***************************************************************************)
C10_NoSentinel ==
  (call.op = "parse" /\ call.err = "")
    => (\A n \in Nodes(call.res) : n # undefinedSymbol)

(***************************************************************************)
(* The hook calls the log records for one node of the call itself (not of  *)
(* a call made from inside a hook), in the order they were made.           *)
(***************************************************************************)
TopEntries ==
  SelectSeq(call.log, LAMBDA e : call.op = "parse" \/ (e.lvl = 1 /\ e.who # "exit"))

VisitedNodes == {TopEntries[i].node : i \in 1..Len(TopEntries)}

NodeEntries(n) == SelectSeq(TopEntries, LAMBDA e : e.node = n)

Steps(n) == [i \in 1..Len(NodeEntries(n)) |-> NodeEntries(n)[i].who]

PluginSteps(n) ==
  LET ps == SelectSeq(NodeEntries(n), LAMBDA e : e.who = "plugin")
  IN [i \in 1..Len(ps) |-> ps[i].pid]

\* The plugins of instance x that have the hook of this kind, in registration order.
RECURSIVE Hooked(_, _)
Hooked(ids, kind) ==
  IF ids = <<>> THEN <<>>
  ELSE (IF Plugin(Head(ids))[kind] # "none" THEN <<Head(ids)>> ELSE <<>>)
         \o Hooked(Tail(ids), kind)

\* Each call of the node gets the previous call's result, all get the same raw.
Chained(es) ==
  /\ \A i \in 1..(Len(es) - 1) : es[i + 1].value = es[i].ret
  /\ \A i \in 1..Len(es) : es[i].raw = es[1].raw

\* v with absent in every place inside it that holds the placeholder.
RECURSIVE Absent(_)
Absent(v) ==
  CASE v = undefinedSymbol -> Undef
    [] v.t = "array" -> Arr([i \in 1..Len(v.e) |-> Absent(v.e[i])])
    [] v.t = "object" -> Obj([i \in 1..Len(v.f) |-> Fld(v.f[i].k, Absent(v.f[i].v))])
    [] OTHER -> v

RECURSIVE AtKeys(_, _)
AtKeys(v, keys) == IF keys = <<>> THEN v ELSE AtKeys(Get(v, Head(keys)), Tail(keys))

(***************************************************************************)
(* C5.  Encode pipeline order: for every node stringify visits, the        *)
(* custom conversion (if the value has one and is not a date) runs first,  *)
(* then every registered plugin's replacer in registration order, then the *)
(* user's replacer function, then the built-in type dispatch; each step    *)
(* gets the previous step's result, and raw is the untouched holder[key].  *)
(***************************************************************************)
C5_EncodeOrder ==
  (call.op = "stringify" /\ call.err = "")
    => \A n \in VisitedNodes :
         /\ Steps(n) =
              (IF NodeEntries(n)[1].raw.t = "tojson" THEN <<"toJSON">> ELSE <<>>)
                \o [i \in 1..Len(Hooked(registry[call.x], "replacer")) |-> "plugin"]
                \o (IF call.replacer.t = "function" THEN <<"rep">> ELSE <<>>)
                \o <<"dispatch">>
         /\ PluginSteps(n) = Hooked(registry[call.x], "replacer")
         /\ Chained(NodeEntries(n))
         /\ NodeEntries(n)[1].value = NodeEntries(n)[1].raw

(***************************************************************************)
(* C6.  Decode pipeline order: for every node parse visits, the built-in   *)
(* tag decode runs first, then the user's reviver, then every registered   *)
(* plugin's reviver in registration order; each hook gets the previous     *)
(* result, the host's raw value (for a leaf, what the host parser read)    *)
(* and the parsed tag (undefined when the raw value was not token-shaped); *)
(* the last result is the node's decoded value.                            *)
(***************************************************************************)
C6_DecodeOrder ==
  (call.op = "parse" /\ NativeParse(call.text).ok)
    => /\ call.err = ""
       /\ \A n \in VisitedNodes :
            /\ Steps(n) =
                 (IF call.reviver.t = "function" THEN <<"reviver">> ELSE <<>>)
                   \o [i \in 1..Len(Hooked(registry[call.x], "reviver")) |-> "plugin"]
                   \o <<"return">>
            /\ PluginSteps(n) = Hooked(registry[call.x], "reviver")
            /\ Chained(NodeEntries(n))
            /\ \A i \in 1..Len(NodeEntries(n)) :
                 /\ NodeEntries(n)[i].raw.t = AtKeys(NativeParse(call.text).v, Tail(n)).t
                 /\ NodeEntries(n)[i].raw.t \notin {"array", "object"}
                      => NodeEntries(n)[i].raw = AtKeys(NativeParse(call.text).v, Tail(n))
                 /\ (NodeEntries(n)[i].tag = Undef) <=> ~IsTokenString(NodeEntries(n)[i].raw)
            /\ AtKeys(call.res, Tail(n)) = Absent(NodeEntries(n)[Len(NodeEntries(n))].value)

(***************************************************************************)
(* C7.  Registry isolation: a stringify or parse call on instance X        *)
(* applies, at every node, exactly the plugins registered on X, in X's     *)
(* registration order, and never one registered only on another instance,  *)
(* whatever the hooks do, a stringify call on another instance included.   *)
(***************************************************************************)
C7_RegistryIsolation ==
  call.op \in {"stringify", "parse"}
    => \A n \in VisitedNodes :
         PluginSteps(n) =
           Hooked(registry[call.x], IF call.op = "parse" THEN "reviver" ELSE "replacer")

(***************************************************************************)
(* C11.  String escaping: quote(s) is a double quote, the image of each    *)
(* character of s in order, and a double quote.  Backspace, tab, newline,  *)
(* form feed, carriage return, double quote and backslash have their       *)
(* two-character escapes; every other character of the escapable set has   *)
(* a backslash-u escape with exactly four lowercase hex digits; every      *)
(* other character is itself.  A string without escapable characters comes *)
(* back in quotes unchanged, and reading quote(s) as a host-format string  *)
(* literal gives s.                                                        *)
(***************************************************************************)
TwoCharEscapes ==
  (8 :> U(<<"\\", "b">>)) @@ (9 :> U(<<"\\", "t">>)) @@ (10 :> U(<<"\\", "n">>))
    @@ (12 :> U(<<"\\", "f">>)) @@ (13 :> U(<<"\\", "r">>))
    @@ (34 :> U(<<"\\", "\"">>)) @@ (92 :> U(<<"\\", "\\">>))

\* 0000-001F, 007F-009F, 00AD, 0600-0604, 070F, 17B4, 17B5, 200C-200F, 2028-202F,
\* 2060-206F, FEFF, FFF0-FFFF
EscapableSet ==
  (0..31) \cup (127..159) \cup {173} \cup (1536..1540) \cup {1807, 6068, 6069}
    \cup (8204..8207) \cup (8232..8239) \cup (8288..8303) \cup {65279}
    \cup (65520..65535)

LowerHex == U(<<"0", "1", "2", "3", "4", "5", "6", "7", "8", "9", "a", "b", "c", "d", "e", "f">>)

FourHex(c) ==
  <<LowerHex[((c \div 4096) % 16) + 1], LowerHex[((c \div 256) % 16) + 1],
    LowerHex[((c \div 16) % 16) + 1], LowerHex[(c % 16) + 1]>>

ImageOf(c) ==
  IF c \in DOMAIN TwoCharEscapes THEN TwoCharEscapes[c]
  ELSE IF c \in EscapableSet THEN U(<<"\\", "u">>) \o FourHex(c)
  ELSE <<c>>

C11_StringEscaping ==
  call.op = "quote"
    => /\ call.out.s = <<34>> \o Concat([i \in 1..Len(call.text) |-> ImageOf(call.text[i])])
                         \o <<34>>
       /\ (\A i \in 1..Len(call.text) :
             call.text[i] \notin EscapableSet \cup DOMAIN TwoCharEscapes)
            => call.out.s = <<34>> \o call.text \o <<34>>
       /\ NativeParse(call.out.s) = [ok |-> TRUE, v |-> Str(call.text)]

C11_Witness ==
  /\ call.op = "quote"
  /\ call.text = <<127, 10>>
  /\ call.out.def

(***************************************************************************)
(* C12.  Sweep termination and single visit: for every value the           *)
(* host-parser pass produces, objects shared between fields or containing  *)
(* themselves included, the sweep ends with its queue empty, and every     *)
(* reachable array or keyed structure is dequeued and scanned exactly      *)
(* once.                                                                   *)
(***************************************************************************)
RECURSIVE ReachableFrom(_, _)
ReachableFrom(ids, seen) ==
  IF ids \subseteq seen THEN seen
  ELSE ReachableFrom(
         UNION {{sweep.heap[id][i].id : i \in {j \in 1..Len(sweep.heap[id]) :
                                                 sweep.heap[id][j].t = "ref"}} : id \in ids},
         seen \cup ids)

Reachable == IF sweep.json.t = "ref" THEN ReachableFrom({sweep.json.id}, {}) ELSE {}

ScannedOnce ==
  /\ sweep.run \in {"running", "done"} => \A id \in 1..MaxObjects : sweep.scans[id] <= 1
  /\ sweep.run = "done" => \A id \in Reachable : sweep.scans[id] = 1

C12_SweepTerminates ==
  /\ []ScannedOnce
  /\ (sweep.run = "running") ~> (sweep.run = "done" /\ sweep.queue = <<>>)

(***************************************************************************)
(* C13.  Path invariant: at every call of a plugin replacer or of the      *)
(* replacer function during a top-level stringify call, path is the        *)
(* sequence of keys from the fake root to the node (the root key "" first, *)
(* array indices as decimal strings), so its length is the depth of the    *)
(* node plus one; after a child has been encoded path is the parent's      *)
(* again.  This holds for every call of any sequence of calls, also after  *)
(* a call a hook aborted, when no hook calls stringify itself.             *)
(***************************************************************************)
HookEntries == SelectSeq(call.log, LAMBDA e : e.who \in {"plugin", "rep"})

NoReentrantHook == \A i \in 1..Len(registry[call.x]) : registry[call.x][i] # "N"

C13_PathInvariant ==
  (call.op = "stringify" /\ NoReentrantHook)
    => /\ \A i \in 1..Len(HookEntries) :
            /\ HookEntries[i].path = HookEntries[i].node
            /\ HookEntries[i].path[1] = <<>>
            /\ HookEntries[i].path[Len(HookEntries[i].path)] = HookEntries[i].key
       /\ (call.value.t = "array" /\ HookEntries # <<>> /\ call.err = "")
            => {HookEntries[i].path : i \in {j \in 1..Len(HookEntries) :
                                                Len(HookEntries[j].path) = 2}}
                 = {<<<<>>, <<48 + k>>>> : k \in 0..(Len(call.value.e) - 1)}
       /\ call.err = "" => path = <<<<>>>>

\* A call that follows an aborted one, and whose hooks ran two levels below the root.
C13_Witness ==
  /\ call.op = "stringify"
  /\ call.err = ""
  /\ Len(call.before) >= 2
  /\ \E i \in 1..Len(HookEntries) : Len(HookEntries[i].path) = 3

(***************************************************************************)
(* C14.  Indentation invariant: gap on return from encoding a node is what *)
(* it was on entry, and while the children of a container at depth d (the  *)
(* root container has d = 0) are encoded it is the indent unit d + 1       *)
(* times.  So with a non-empty unit every child line of a depth-d          *)
(* container starts with d + 1 units and its closing bracket with d units; *)
(* with an empty unit the output has no newline and no padding; and a      *)
(* container that emits nothing is [] or {} for every space.               *)
(***************************************************************************)
RECURSIVE Times(_, _)
Times(unit, n) == IF n = 0 THEN <<>> ELSE unit \o Times(unit, n - 1)

RECURSIVE LeadingUnits(_, _)
LeadingUnits(line, unit) ==
  IF unit # <<>> /\ StartsWith(line, unit)
  THEN 1 + LeadingUnits(SubSeq(line, Len(unit) + 1, Len(line)), unit)
  ELSE 0

\* The lines from the k-th on are laid out for a text that is depth containers deep
\* at the start of line k; opened: line k - 1 ended with an opening bracket.
RECURSIVE LaidOut(_, _, _, _, _)
LaidOut(lines, k, depth, opened, unit) ==
  IF k > Len(lines) THEN depth = 0
  ELSE LET line == lines[k]
           n == LeadingUnits(line, unit)
           body == SubSeq(line, n * Len(unit) + 1, Len(line))
           closes == body # <<>> /\ body[1] \in {Ord("]"), Ord("}")}
           opens == body # <<>> /\ body[Len(body)] \in {Ord("["), Ord("{")}
           level == IF closes THEN depth - 1 ELSE depth
       IN /\ body # <<>>
          /\ body[1] # 32
          /\ n = level
          /\ ~(closes /\ opened)
          /\ LaidOut(lines, k + 1, IF opens THEN level + 1 ELSE level, opens, unit)

EncoderEntries == SelectSeq(call.log, LAMBDA e : e.lvl = 1)

=============================================================================
